---- MODULE Spec2Model ----
(***************************************************************************)
(* Model of src/services/proxy_manager.py (ProxyManager) and               *)
(* src/services/cloudflare_solver.py (CloudflareState,                     *)
(* solve_cloudflare_challenge).                                            *)
(*                                                                         *)
(* The program runs on an asyncio event loop: a coroutine runs without     *)
(* interruption from one suspension point (await) to the next.  Every      *)
(* action below is one such segment.  No block that holds an asyncio.Lock  *)
(* contains an await, so a lock is never held at a suspension point:       *)
(* `async with lock` finds the lock free and does not suspend, and the     *)
(* locked block runs in the segment that reaches it.  The locks therefore  *)
(* carry no state between actions and are not variables of the model.      *)
(*                                                                         *)
(* Values.  A Python str is a sequence of one-character strings, an        *)
(* Optional[x] is <<>> (None) or <<x>>.                                    *)
(***************************************************************************)
EXTENDS Integers, Sequences, FiniteSets, TLC

\* ------------------------------------------------------------------ bounds
\* Number of concurrent coroutines.
NTasks == 2
\* Number of them that call solve_cloudflare_challenge.
NSolvers == 1
\* Number of calls recorded in the rotation log after each (re)load.
MaxServed == 4

Tasks == 1..NTasks

Solvers == {t \in Tasks : t <= NSolvers}

\* ------------------------------------------------------------------ values
None == <<>>
Some(x) == <<x>>

\* ------------------------------------------------------------------ proxy list source
\* str.strip(): the whitespace of the model's alphabet.
IsSpace(c) == c \in {" ", "\n"}

RECURSIVE LStrip(_)
LStrip(s) == IF s # <<>> /\ IsSpace(Head(s)) THEN LStrip(Tail(s)) ELSE s

RECURSIVE RStrip(_)
RStrip(s) == IF s # <<>> /\ IsSpace(s[Len(s)]) THEN RStrip(SubSeq(s, 1, Len(s) - 1)) ELSE s

Strip(s) == RStrip(LStrip(s))

\* `if line and not line.startswith("#")`, on the stripped line.
KeepLine(l) == l # <<>> /\ Head(l) # "#"

RECURSIVE ParseLines(_)
ParseLines(lines) ==
    IF lines = <<>> THEN <<>>
    ELSE LET l == Strip(Head(lines))
         IN  (IF KeepLine(l) THEN <<l>> ELSE <<>>) \o ParseLines(Tail(lines))

\* A proxy.txt: whether it exists, its lines, and how many of them are read
\* before the read raises (Len(lines) when it does not raise; 0 when open()
\* raises).  The except clause keeps what was appended before the exception.
File(e, ls, r) == [exists |-> e, lines |-> ls, readable |-> r]

\* ProxyManager._load_proxy_pool
LoadProxyPool(f) ==
    IF ~f.exists THEN <<>> ELSE ParseLines(SubSeq(f.lines, 1, f.readable))

LineA == <<"a", "\n">>
LineB == <<" ", "b", " ", "\n">>
LineC == <<"c">>
LineComment == <<" ", "#", "a", "\n">>
LineBlank == <<" ", "\n">>

\* The contents proxy.txt takes in the model: missing, empty, two entries
\* among comment and blank lines, three entries, unreadable from the start,
\* and unreadable after its first line.
FileSources ==
    { File(FALSE, <<>>, 0),
      File(TRUE, <<>>, 0),
      File(TRUE, <<LineComment, LineA, LineBlank, LineB>>, 4),
      File(TRUE, <<LineA, LineB, LineC>>, 3),
      File(TRUE, <<LineA, LineB, LineC>>, 0),
      File(TRUE, <<LineB, LineA, LineC>>, 1) }

\* ------------------------------------------------------------------ proxy configuration
UrlP == <<"u">>

\* ProxyConfig rows the database serves: proxy_url is None, "" or a URL.
Configs ==
    [proxy_enabled : BOOLEAN, proxy_url : {None, Some(<<>>), Some(UrlP)},
     proxy_pool_enabled : BOOLEAN]

NoConfig == [proxy_enabled |-> FALSE, proxy_url |-> None, proxy_pool_enabled |-> FALSE]

\* Faulty variant of ProxyDisabled: a configured URL overrides the switch.
ProxyDisabledUnlessUrl(c) == ~c.proxy_enabled /\ c.proxy_url = None

\* `if not config.proxy_enabled`
ProxyDisabled(c) == ~c.proxy_enabled

\* Faulty variant of UsePool: the pool is consulted whatever the configuration says.
UsePoolAlways(c) == TRUE

\* `if config.proxy_pool_enabled`
UsePool(c) == c.proxy_pool_enabled

\* Faulty variant of NextIndex: the index is not advanced.
NextIndexStuck(i, n) == i

\* `config.proxy_url if config.proxy_url else None`
SingleProxy(c) ==
    IF c.proxy_url # None /\ c.proxy_url[1] # <<>> THEN c.proxy_url ELSE None

\* Faulty variant of NextIndex: the index is advanced without wrapping.
NextIndexNoWrap(i, n) == i + 1

\* `(self._pool_index + 1) % len(self._proxy_pool)`
NextIndex(i, n) == (i + 1) % n

\* Faulty variant of CurrentProxy: the entry after the cursor is returned.
CurrentProxyOffByOne(pool, i) == pool[((i + 1) % Len(pool)) + 1]

\* `self._proxy_pool[self._pool_index]` (Python indexes from 0)
CurrentProxy(pool, i) == pool[i + 1]

VARIABLES
    config,         \* the ProxyConfig row persisted in the database
    file,           \* data/proxy.txt
    proxy_pool,     \* ProxyManager._proxy_pool
    pool_index,     \* ProxyManager._pool_index
    pc,             \* per task: the suspension point it is at
    cfg,            \* per task: the local `config` of get_proxy_url
    ret,            \* the last return of a ProxyManager method
    served,         \* history: the rotations since the pool was last (re)loaded
    stale_pool,     \* history: the entries were cached before an update that has persisted
                    \* its row and not yet reset the pool
    stale_cfg,      \* history: the tasks about to take the pool lock that read such a row
    cookies,        \* CloudflareState._cookies
    user_agent,     \* CloudflareState._user_agent
    last_updated,   \* CloudflareState._last_updated
    rd,             \* per task: the cookies a reader has read, before it reads the user agent
    pair,           \* the last (cookies, user_agent) a reader read
    last_mut,       \* history: the last update or clear that ran its locked block
    solver_cfg,     \* config.cloudflare_solver_enabled / cloudflare_solver_api_url
    sv,             \* per task: the locals of solve_cloudflare_challenge
    sret,           \* the last outcome of solve_cloudflare_challenge
    chal,           \* the arguments of an is_cloudflare_challenge call and what it returned
    objs,           \* the dict objects alive: the items each holds
    cookies_ref,    \* the dict object CloudflareState._cookies refers to
    held            \* per task: the dict object the caller holds, 0 if none

pvars == <<config, file, proxy_pool, pool_index, cfg, ret, served, stale_pool, stale_cfg>>

cvars == <<cookies, user_agent, last_updated, rd, pair, last_mut>>

svars == <<solver_cfg, sv, sret>>

hvars == <<chal>>

avars == <<objs, cookies_ref, held>>

vars == <<config, file, proxy_pool, pool_index, pc, cfg, ret, served, stale_pool, stale_cfg,
          cookies, user_agent, last_updated, rd, pair, last_mut, solver_cfg, sv, sret,
          chal, objs, cookies_ref, held>>

NoRet == [op |-> "none", val |-> None, n |-> 0, cfg |-> NoConfig]

Ret(op, val, n, c) == [op |-> op, val |-> val, n |-> n, cfg |-> c]

\* Faulty variant of ResetState: the list is cleared and the cursor left where it was.
ResetStateKeepIndex == [pool |-> <<>>, index |-> pool_index]

\* `self._proxy_pool = []`, `self._pool_index = 0`
ResetState == [pool |-> <<>>, index |-> 0]

\* History: the first MaxServed rotations since the last (re)load.
Log(s, i, v) == IF Len(s) < MaxServed THEN Append(s, [idx |-> i, val |-> v]) ELSE s

InitProxy ==
    /\ config \in Configs
    /\ file \in FileSources
    /\ proxy_pool = <<>>
    /\ pool_index = 0
    /\ cfg = [t \in Tasks |-> NoConfig]
    /\ ret = NoRet
    /\ served = <<>>
    /\ stale_pool = FALSE
    /\ stale_cfg = {}

\* ------------------------------------------------------------------ credential values
\* A cookie dict is the set of its (name, value) items.
EmptyDict == {}
DictA == {<<"cf_clearance", "1">>}
DictB == {<<"cf_clearance", "2">>, <<"b", "1">>}
DictC == {<<"c", "3">>}

\* A user_agent that is not a str: the JSON number 123.
NotStr == "<123>"

\* bool(d) of a dict
DictTruthy(d) == d # {}

\* bool(u) of an Optional value: None and "" are falsy.
StrTruthy(u) == u # None /\ u[1] # ""

\* dict.copy(): a new dict with the same items.
CopyDict(d) == {i : i \in d}

\* Line 52: `user_agent[:50]` raises TypeError unless user_agent is a str.
UpdateRaises(u) == u = None \/ u[1] = NotStr

\* What direct callers pass to CloudflareState.update.  No cookie dict and no
\* user agent occurs in two of them, so a pair read from the store tells
\* whether its halves come from one call.
UpdateArgs ==
    { [cookies |-> DictA, ua |-> Some("U1")],
      [cookies |-> DictB, ua |-> Some("U2")],
      [cookies |-> EmptyDict, ua |-> Some("U3")],
      [cookies |-> DictC, ua |-> None] }

\* The values datetime.now() takes.
MaxTime == 2
Times == 1..MaxTime

AbsentPair == [cookies |-> EmptyDict, ua |-> None]

NoMut == [op |-> "none", cookies |-> EmptyDict, ua |-> None]

\* Faulty variant of IsValid: only the user agent is looked at.
IsValidAgentOnly == user_agent # None

\* CloudflareState.is_valid
IsValid == DictTruthy(cookies) /\ user_agent # None

InitCreds ==
    /\ cookies = EmptyDict
    /\ user_agent = None
    /\ last_updated = None
    /\ rd = [t \in Tasks |-> EmptyDict]
    /\ pair = AbsentPair
    /\ last_mut = NoMut

\* ------------------------------------------------------------------ solver values
\* Largest max_retries a caller passes.
MaxRetries == 3

RetryArgs == (-1)..MaxRetries

SolverConfigs == [enabled : BOOLEAN, api_url : {None, Some(""), Some("http://solver")}]

SolverOff == [enabled |-> FALSE, api_url |-> None]

\* Faulty variant of GateOpen: only the flag is looked at.
GateOpenFlagOnly(sc) == sc.enabled

\* Line 108, negated: the solver is enabled and has an address.
GateOpen(sc) == sc.enabled /\ StrTruthy(sc.api_url)

\* What one GET to the solving service ends in.  "success" is HTTP 200 with a
\* truthy "success"; cookies and ua are data.get("cookies", {}) and
\* data.get("user_agent").
Soft(k) == [kind |-> k, cookies |-> EmptyDict, ua |-> None]

Success(c, u) == [kind |-> "success", cookies |-> c, ua |-> u]

Replies ==
    { Success(DictA, Some("U1")), Success(DictB, Some("U2")),
      Success(EmptyDict, Some("U1")), Success(DictA, None), Success(DictA, Some("")),
      Success(EmptyDict, None), Success(DictB, Some(NotStr)),
      Success(EmptyDict, Some(NotStr)),
      Soft("success_false"), Soft("status_500"), Soft("timeout"),
      Soft("connect_error"), Soft("bad_json"), Soft("bad_elapsed") }

\* Faulty variant of Publishes: every successful reply is published.
PublishesAnySuccess(o) == o.kind = "success"

\* Faulty variant of Publishes: only the cookies are looked at.
PublishesCookiesOnly(o) == o.kind = "success" /\ DictTruthy(o.cookies)

\* Line 129: `if cookies and user_agent`
Publishes(o) == o.kind = "success" /\ DictTruthy(o.cookies) /\ StrTruthy(o.ua)

\* The exception the body of the try raises for a reply, "none" if none:
\* the client's timeout and connection errors, response.json() on a body
\* that is not JSON, the :.2f format of an elapsed_seconds that is no
\* number, and update() on a user_agent that is no str.
ReplyException(o) ==
    CASE o.kind = "timeout" -> "TimeoutException"
      [] o.kind = "connect_error" -> "ConnectError"
      [] o.kind = "bad_json" -> "JSONDecodeError"
      [] o.kind = "bad_elapsed" -> "TypeError"
      [] Publishes(o) /\ UpdateRaises(o.ua) -> "TypeError"
      [] OTHER -> "none"

\* Faulty variant of Caught: only the client's own errors are caught.
CaughtHttpOnly(e) == e \in {"TimeoutException", "ConnectError"}

\* Line 138: `except Exception` catches every subclass of Exception.
Caught(e) == e \in {"TimeoutException", "ConnectError", "JSONDecodeError", "TypeError"}

\* Faulty variant of Backoff: the wait does not grow.
BackoffConstant(attempt) == 2

\* Faulty variant of Backoff: the first wait is skipped.
BackoffFromZero(attempt) == (attempt - 1) * 2

\* Line 143: `wait_time = attempt * 2`
Backoff(attempt) == attempt * 2

\* The locals of a call: max_retries and attempt, and as history the GETs
\* issued, the soft failures met and the seconds slept.
NoSolve == [max_retries |-> 0, attempt |-> 0, calls |-> 0, fails |-> 0, waited |-> 0]

NoSret ==
    [kind |-> "none", cookies |-> EmptyDict, ua |-> None, calls |-> 0, fails |-> 0,
     waited |-> 0, max_retries |-> 0, gate |-> FALSE]

SRet(k, c, u, s, g) ==
    [kind |-> k, cookies |-> c, ua |-> u, calls |-> s.calls, fails |-> s.fails,
     waited |-> s.waited, max_retries |-> s.max_retries, gate |-> g]

InitSolver ==
    /\ sv = [t \in Tasks |-> NoSolve]
    /\ sret = NoSret

\* ------------------------------------------------------------------ challenge detection values
CfMitigated == <<"c", "f", "-", "m", "i", "t", "i", "g", "a", "t", "e", "d">>

JustAMoment == <<"J", "u", "s", "t", " ", "a", " ", "m", "o", "m", "e", "n", "t">>

ChallengePlatform ==
    <<"c", "h", "a", "l", "l", "e", "n", "g", "e", "-", "p", "l", "a", "t", "f", "o", "r", "m">>

\* s.startswith(n)
IsPrefix(n, s) == Len(n) <= Len(s) /\ SubSeq(s, 1, Len(n)) = n

\* `n in s` for two strs: n occurs in s at some offset.
RECURSIVE In(_, _)
In(n, s) == IF Len(s) < Len(n) THEN FALSE ELSE IsPrefix(n, s) \/ In(n, Tail(s))

\* repr() of a str without quotes or backslashes.
Repr(x) == <<"'">> \o x \o <<"'">>

\* str() of a dict, given as the sequence of its (key, value) items:
\* {'k1': 'v1', 'k2': 'v2'}
RECURSIVE StrItems(_)
StrItems(items) ==
    IF items = <<>> THEN <<>>
    ELSE Repr(Head(items)[1]) \o <<":", " ">> \o Repr(Head(items)[2])
         \o (IF Tail(items) = <<>> THEN <<>> ELSE <<",", " ">>)
         \o StrItems(Tail(items))

StrDict(h) == <<"{">> \o StrItems(h) \o <<"}">>

\* Faulty variant of ChallengeStatuses: 503 passes the status gate too.
ChallengeStatusesWith503 == {429, 403, 503}

\* Line 162: `[429, 403]`
ChallengeStatuses == {429, 403}

\* is_cloudflare_challenge
IsCloudflareChallenge(status_code, headers, response_text) ==
    IF status_code \notin ChallengeStatuses THEN FALSE
    ELSE \/ In(CfMitigated, StrDict(headers))
         \/ In(JustAMoment, response_text)
         \/ In(ChallengePlatform, response_text)

\* The arguments the calls of the model take.
StatusInputs == {200, 403, 404, 429, 500, 503}

\* No header; cf-mitigated as a key, inside a value, and inside a longer key
\* after another header; the word cut in two by the boundary of key and
\* value; the word with a capital.
HeaderInputs ==
    { <<>>,
      << <<CfMitigated, <<"y", "e", "s">>>> >>,
      << <<<<"v", "i", "a">>, <<"x", " ">> \o CfMitigated>> >>,
      << <<<<"a">>, <<"b">>>>, <<<<"x", "-">> \o CfMitigated \o <<"-", "x">>, <<"1">>>> >>,
      << <<SubSeq(CfMitigated, 1, 11), <<"d">>>> >>,
      << <<<<"C">> \o Tail(CfMitigated), <<"y", "e", "s">>>> >> }

\* An empty body; the two markers, at the start and inside; a marker without
\* its capital, and one cut short.
BodyInputs ==
    { <<>>,
      JustAMoment \o <<".", ".", ".">>,
      <<"<", "p", ">">> \o JustAMoment,
      <<"/", "c", "d", "n", "/">> \o ChallengePlatform \o <<"/">>,
      <<"j">> \o Tail(JustAMoment),
      SubSeq(ChallengePlatform, 1, 17) }

NoChallenge == [status |-> 200, headers |-> <<>>, text |-> <<>>, out |-> None]

InitChallengeIdle == chal = NoChallenge

\* ------------------------------------------------------------------ dict objects
\* Places for dict objects: the store's, one held by each task, and one for
\* the copy an update makes of its argument.  A place is a name: it is free
\* for a new object once the step refers to the object in it no longer.
Refs == 1..(NTasks + 2)

\* The objects the tasks refer to.
HeldRefs(h) == {h[t] : t \in Tasks}

\* The objects some variable refers to.
LiveRefs(store, h) == {store} \cup HeldRefs(h)

\* The place a new object takes: the first that is free.
NewRef(used) == CHOOSE r \in Refs \ used : \A q \in Refs \ used : r <= q

\* The heap after a step: objects no variable refers to are gone.
Collect(o, live) == [r \in Refs |-> IF r \in live THEN o[r] ELSE EmptyDict]

\* Faulty variant of DictCopyRef: the dict itself is handed on.
DictCopyRefAlias(src, fresh) == src

\* dict.copy() returns a new object, never the dict it is called on.
DictCopyRef(src, fresh) == fresh

\* What a caller does to a dict it holds: d["x"] = "9", or d.clear().
Mutations(d) == {d \cup {<<"x", "9">>}, EmptyDict} \ {d}

InitHeap ==
    /\ cookies_ref = 1
    /\ objs = [r \in Refs |-> EmptyDict]
    /\ held = [t \in Tasks |-> 0]

\* ------------------------------------------------------------------ initial states
InitTasks == pc = [t \in Tasks |-> "idle"]

\* ProxyManager.__init__, with any configuration row and any proxy.txt.
Init ==
    /\ InitProxy
    /\ InitTasks
    /\ InitCreds
    /\ InitSolver
    /\ solver_cfg = SolverOff
    /\ InitChallengeIdle
    /\ InitHeap

\* ProxyManager.__init__, the proxy switched off and no proxy.txt.
InitProxyOff ==
    /\ InitProxy
    /\ config = NoConfig
    /\ file = File(FALSE, <<>>, 0)

\* CloudflareState.__init__, the solver switched off.
InitStore ==
    /\ InitCreds
    /\ InitTasks
    /\ InitSolver
    /\ solver_cfg = SolverOff
    /\ InitProxyOff
    /\ InitChallengeIdle
    /\ InitHeap

\* CloudflareState.__init__, with any solver configuration.
InitSolve ==
    /\ InitCreds
    /\ InitTasks
    /\ InitSolver
    /\ solver_cfg \in SolverConfigs
    /\ InitProxyOff
    /\ InitChallengeIdle
    /\ InitHeap

\* The module as imported: nothing has run, and a caller is about to ask
\* is_cloudflare_challenge about a response.
InitChallenge ==
    /\ InitCreds
    /\ InitTasks
    /\ InitSolver
    /\ solver_cfg = SolverOff
    /\ InitProxyOff
    /\ InitHeap
    /\ chal \in [status : StatusInputs, headers : HeaderInputs, text : BodyInputs, out : {None}]

\* ------------------------------------------------------------------ get_proxy_url
\* Lines 34-40 and 56: read the configuration, return without the pool, or go
\* on to take the pool lock.
GetReadConfig(t) ==
    /\ pc[t] = "idle"
    /\ IF ProxyDisabled(config)
         THEN /\ ret' = Ret("get", None, 0, config)
              /\ UNCHANGED <<pc, cfg, stale_cfg>>
         ELSE IF UsePool(config)
           THEN /\ cfg' = [cfg EXCEPT ![t] = config]
                /\ pc' = [pc EXCEPT ![t] = "get_lock"]
                /\ stale_cfg' = IF stale_pool THEN stale_cfg \cup {t} ELSE stale_cfg
                /\ UNCHANGED ret
           ELSE /\ ret' = Ret("get", SingleProxy(config), 0, config)
                /\ UNCHANGED <<pc, cfg, stale_cfg>>
    /\ UNCHANGED <<config, file, proxy_pool, pool_index, served, stale_pool>>
    /\ UNCHANGED <<cvars, svars, hvars, avars>>

\* Lines 41-53: the locked block.
GetFromPool(t) ==
    /\ pc[t] = "get_lock"
    /\ LET pool == IF proxy_pool = <<>> THEN LoadProxyPool(file) ELSE proxy_pool
           base == IF proxy_pool = <<>> THEN <<>> ELSE served
       IN  /\ proxy_pool' = pool
           /\ IF pool # <<>>
                THEN /\ ret' = Ret("get", Some(CurrentProxy(pool, pool_index)), 0, cfg[t])
                     /\ pool_index' = NextIndex(pool_index, Len(pool))
                     /\ served' = Log(base, pool_index, CurrentProxy(pool, pool_index))
                ELSE /\ ret' = Ret("get", SingleProxy(cfg[t]), 0, cfg[t])
                     /\ UNCHANGED pool_index
                     /\ served' = base
    /\ pc' = [pc EXCEPT ![t] = "idle"]
    /\ cfg' = [cfg EXCEPT ![t] = NoConfig]
    /\ stale_cfg' = stale_cfg \ {t}
    /\ UNCHANGED <<config, file, stale_pool>>
    /\ UNCHANGED <<cvars, svars, hvars, avars>>

\* ------------------------------------------------------------------ update_proxy_config
\* Line 60: the database persists the new row.
UpdatePersist(t) ==
    /\ pc[t] = "idle"
    /\ \E c \in Configs : config' = c
    /\ pc' = [pc EXCEPT ![t] = "upd_lock"]
    /\ stale_pool' = (proxy_pool # <<>>)
    /\ UNCHANGED <<file, proxy_pool, pool_index, cfg, ret, served, stale_cfg>>
    /\ UNCHANGED <<cvars, svars, hvars, avars>>

\* Lines 63-65: the locked block.
UpdateReset(t) ==
    /\ pc[t] = "upd_lock"
    /\ proxy_pool' = ResetState.pool
    /\ pool_index' = ResetState.index
    /\ served' = <<>>
    /\ ret' = Ret("update", None, 0, NoConfig)
    /\ pc' = [pc EXCEPT ![t] = "idle"]
    /\ stale_pool' = FALSE
    /\ stale_cfg' = {}
    /\ UNCHANGED <<config, file, cfg>>
    /\ UNCHANGED <<cvars, svars, hvars, avars>>

\* ------------------------------------------------------------------ get_proxy_pool_count
\* Lines 73-74: no lock, no cached state.
PoolCount(t) ==
    /\ pc[t] = "idle"
    /\ ret' = Ret("count", None, Len(LoadProxyPool(file)), NoConfig)
    /\ UNCHANGED <<config, file, proxy_pool, pool_index, pc, cfg, served, stale_pool, stale_cfg>>
    /\ UNCHANGED <<cvars, svars, hvars, avars>>

\* ------------------------------------------------------------------ reload_proxy_pool
\* Faulty variant of ReloadState: the cursor is left where it was.
ReloadStateKeepIndex(f) == [pool |-> LoadProxyPool(f), index |-> pool_index]

\* Lines 79-80: `self._proxy_pool = self._load_proxy_pool()`, `self._pool_index = 0`
ReloadState(f) == [pool |-> LoadProxyPool(f), index |-> 0]

\* Faulty variant of ReloadReturn: the length is taken before the list is installed.
ReloadReturnStale == Len(proxy_pool)

\* Line 81: `return len(self._proxy_pool)`, the field as it is when the
\* locked block has run.
ReloadReturn == Len(proxy_pool')

\* Lines 78-81: the locked block and the return; neither the release of the
\* lock nor the return suspends, so the length is read in the segment that
\* installed the list.
ReloadPool(t) ==
    /\ pc[t] = "idle"
    /\ proxy_pool' = ReloadState(file).pool
    /\ pool_index' = ReloadState(file).index
    /\ served' = <<>>
    /\ ret' = Ret("reload", None, ReloadReturn, NoConfig)
    /\ pc' = [pc EXCEPT ![t] = "idle"]
    /\ stale_pool' = FALSE
    /\ stale_cfg' = {}
    /\ UNCHANGED <<config, file, cfg>>
    /\ UNCHANGED <<cvars, svars, hvars, avars>>

\* ------------------------------------------------------------------ environment
\* data/proxy.txt is edited, removed or made unreadable between calls.
FileChange ==
    /\ \E f \in FileSources : file' = f
    /\ file' # file
    /\ UNCHANGED <<config, proxy_pool, pool_index, pc, cfg, ret, served, stale_pool, stale_cfg>>
    /\ UNCHANGED <<cvars, svars, hvars, avars>>

NextProxy ==
    \/ \E t \in Tasks : GetReadConfig(t)
    \/ \E t \in Tasks : GetFromPool(t)
    \/ \E t \in Tasks : UpdatePersist(t)
    \/ \E t \in Tasks : UpdateReset(t)
    \/ \E t \in Tasks : PoolCount(t)
    \/ \E t \in Tasks : ReloadPool(t)
    \/ FileChange

SpecProxy == Init /\ [][NextProxy]_vars

\* ------------------------------------------------------------------ properties of the proxy pool
PoolSize == Len(proxy_pool)

\* The cursors handed out by the calls served[i], ..., served[i + n - 1].
WindowCursors(i, n) == {served[j].idx : j \in i..(i + n - 1)}

\* C2: while the pool of N entries is neither reloaded nor reset, any N calls
\* that follow one another in the order of their locked blocks, whichever
\* tasks make them, are handed N different cursors 0..N-1, and each returns
\* the entry at its cursor: every entry once, none twice, none skipped.
C2_WindowServesEachEntryOnce ==
    /\ \A j \in 1..Len(served) :
          /\ served[j].idx \in 0..(PoolSize - 1)
          /\ served[j].val = proxy_pool[served[j].idx + 1]
    /\ \A i \in 1..Len(served) :
          i + PoolSize - 1 <= Len(served) => WindowCursors(i, PoolSize) = 0..(PoolSize - 1)
    /\ \A j \in 1..(Len(served) - 1) :
          PoolSize > 1 => served[j].idx # served[j + 1].idx

\* A full window over a pool of three, served while another call waits for
\* its turn.
C2_Witness ==
    /\ PoolSize = 3
    /\ Len(served) >= 3
    /\ \E t \in Tasks : pc[t] = "get_lock"

\* C3: the k-th call after a load of N entries returns entries[(k-1) mod N]:
\* the entries in list order, and entries[0] again at call N+1.
C3_RoundRobinInOrder ==
    \A k \in 1..Len(served) : served[k].val = proxy_pool[((k - 1) % PoolSize) + 1]

\* Call N+1 over a pool of three has returned the first entry again.
C3_Witness ==
    /\ PoolSize = 3
    /\ Len(served) = 4
    /\ served[4].val = proxy_pool[1]
    /\ served[4].val # served[3].val

\* C4: the cursor is a valid index of the entries whenever there are entries.
C4_CursorInRange ==
    /\ pool_index >= 0
    /\ proxy_pool # <<>> => pool_index < PoolSize

\* The cursor stands at the last of three entries while the source has
\* shrunk to fewer lines.
C4_Witness ==
    /\ PoolSize = 3
    /\ pool_index = 2
    /\ Len(LoadProxyPool(file)) < 3

\* What the source yields when it is loaded now.
Fresh == LoadProxyPool(file)

\* The proxy_url of a configuration, an empty one counting as absent.
UrlOrAbsent(c) == IF c.proxy_url = Some(UrlP) THEN Some(UrlP) ELSE None

\* C6: when update_proxy_config has returned, the pool is empty with cursor 0,
\* and the get_proxy_url that completes next through the pool returns the
\* first entry the source holds then, or the single-proxy fallback when the
\* source yields nothing.
C6_ResetThenFreshFirst ==
    /\ [](ret.op = "update" => proxy_pool = <<>> /\ pool_index = 0)
    /\ [][\A t \in Tasks :
            (ret.op = "update" /\ pc[t] = "get_lock" /\ pc'[t] = "idle")
            => ret'.val = (IF Fresh # <<>> THEN Some(Fresh[1]) ELSE UrlOrAbsent(cfg[t]))]_vars

\* update_proxy_config has just returned, a get_proxy_url is about to enter
\* the locked block, and the source holds several entries.
C6_Witness ==
    /\ ret.op = "update"
    /\ \E t \in Tasks : pc[t] = "get_lock"
    /\ Len(Fresh) >= 2

\* C7: a get_proxy_url that read proxy_enabled = false returned None.
C7_DisabledReturnsAbsent ==
    (ret.op = "get" /\ ~ret.cfg.proxy_enabled) => ret.val = None

\* Disabled, with a URL configured, the pool switched on and entries cached.
C7_Witness ==
    /\ ret.op = "get"
    /\ ~ret.cfg.proxy_enabled
    /\ ret.cfg.proxy_url = Some(UrlP)
    /\ ret.cfg.proxy_pool_enabled
    /\ proxy_pool # <<>>
    /\ ret.val = None

PooledEntries == {Some(<<"a">>), Some(<<"b">>), Some(<<"c">>)}

\* C8: with proxy_enabled, a call that finds the pool switched off returns
\* proxy_url or None and never a pooled entry; a call that goes through the
\* pool returns the entry at the cursor when the pool holds entries after the
\* load attempt, and proxy_url or None when it holds none.
C8_FallbackChain ==
    /\ []((ret.op = "get" /\ ret.cfg.proxy_enabled /\ ~ret.cfg.proxy_pool_enabled)
           => (ret.val = UrlOrAbsent(ret.cfg) /\ ret.val \notin PooledEntries))
    /\ [][\A t \in Tasks :
            (pc[t] = "get_lock" /\ pc'[t] = "idle")
            => /\ ret'.cfg.proxy_enabled /\ ret'.cfg.proxy_pool_enabled
               /\ IF proxy_pool' # <<>>
                    THEN ret'.val = Some(proxy_pool'[pool_index + 1])
                         /\ ret'.val \in PooledEntries
                    ELSE ret'.val = UrlOrAbsent(cfg[t])]_vars

\* The pool is switched on, the source is unreadable, and the call fell back
\* to the configured URL.
C8_Witness ==
    /\ ret.op = "get"
    /\ ret.cfg.proxy_enabled
    /\ ret.cfg.proxy_pool_enabled
    /\ ret.val = Some(UrlP)
    /\ proxy_pool = <<>>
    /\ file.exists /\ file.readable = 0 /\ file.lines # <<>>

\* ------------------------------------------------------------------ CloudflareState
\* Lines 49-51: the three assignments of update.
StoreUpdate(c, u, now) ==
    /\ cookies' = CopyDict(c)
    /\ user_agent' = u
    /\ last_updated' = Some(now)
    /\ last_mut' = [op |-> "update", cookies |-> c, ua |-> u]

\* CloudflareState.update, called directly: the locked block.  When
\* user_agent is no str the print of line 52 raises after the assignments.
UpdateCreds(t) ==
    /\ pc[t] = "idle"
    /\ \E a \in UpdateArgs, now \in Times : StoreUpdate(a.cookies, a.ua, now)
    /\ UNCHANGED <<pc, rd, pair>>
    /\ UNCHANGED <<pvars, svars, hvars, avars>>

\* CloudflareState.clear: the locked block.
ClearCreds(t) ==
    /\ pc[t] = "idle"
    /\ cookies' = EmptyDict
    /\ user_agent' = None
    /\ last_updated' = None
    /\ last_mut' = [op |-> "clear", cookies |-> EmptyDict, ua |-> None]
    /\ UNCHANGED <<pc, rd, pair>>
    /\ UNCHANGED <<pvars, svars, hvars, avars>>

\* A reader reads the cookies property (lines 21-24) ...
ReadCookies(t) ==
    /\ pc[t] = "idle"
    /\ rd' = [rd EXCEPT ![t] = CopyDict(cookies)]
    /\ pc' = [pc EXCEPT ![t] = "read_ua"]
    /\ UNCHANGED <<cookies, user_agent, last_updated, pair, last_mut>>
    /\ UNCHANGED <<pvars, svars, hvars, avars>>

\* ... and, after other coroutines have run, the user_agent property
\* (lines 26-29).
ReadUserAgent(t) ==
    /\ pc[t] = "read_ua"
    /\ pair' = [cookies |-> rd[t], ua |-> user_agent]
    /\ rd' = [rd EXCEPT ![t] = EmptyDict]
    /\ pc' = [pc EXCEPT ![t] = "idle"]
    /\ UNCHANGED <<cookies, user_agent, last_updated, last_mut>>
    /\ UNCHANGED <<pvars, svars, hvars, avars>>

NextStore ==
    \/ \E t \in Tasks : UpdateCreds(t)
    \/ \E t \in Tasks : ClearCreds(t)
    \/ \E t \in Tasks : ReadCookies(t)
    \/ \E t \in Tasks : ReadUserAgent(t)

SpecStore == InitStore /\ [][NextStore]_vars

\* ------------------------------------------------------------------ solve_cloudflare_challenge
\* Lines 108-119: the gate, and the first GET when the loop has an iteration.
SolveStart(t) ==
    /\ pc[t] = "idle"
    /\ \E mr \in RetryArgs :
         LET s == [NoSolve EXCEPT !.max_retries = mr, !.attempt = 1, !.calls = 1]
             z == [NoSolve EXCEPT !.max_retries = mr]
         IN  IF ~GateOpen(solver_cfg)
               THEN /\ sret' = SRet("absent", EmptyDict, None, z, FALSE)
                    /\ UNCHANGED <<pc, sv>>
               ELSE IF mr < 1
                 THEN /\ sret' = SRet("absent", EmptyDict, None, z, TRUE)
                      /\ UNCHANGED <<pc, sv>>
                 ELSE /\ sv' = [sv EXCEPT ![t] = s]
                      /\ pc' = [pc EXCEPT ![t] = "solve_call"]
                      /\ UNCHANGED sret
    /\ UNCHANGED <<solver_cfg, cvars>>
    /\ UNCHANGED <<pvars, hvars, avars>>

\* Lines 119-148: the GET ends in o: a reply, a timeout or an error.  The
\* update of line 130 finds the store's lock free and runs in this segment.
SolveReplyOf(t, o) ==
    /\ pc[t] = "solve_call"
    /\ LET e == ReplyException(o)
           s == sv[t]
       IN  /\ IF Publishes(o)
                THEN \E now \in Times : StoreUpdate(o.cookies, o.ua, now)
                ELSE UNCHANGED <<cookies, user_agent, last_updated, last_mut>>
           /\ IF o.kind = "success" /\ e = "none"
                THEN \* line 132
                     /\ sret' = SRet("dict", o.cookies, o.ua, s, TRUE)
                     /\ sv' = [sv EXCEPT ![t] = NoSolve]
                     /\ pc' = [pc EXCEPT ![t] = "idle"]
                ELSE IF e # "none" /\ ~Caught(e)
                  THEN \* the exception leaves the function
                       /\ sret' = SRet("raised", EmptyDict, None, s, TRUE)
                       /\ sv' = [sv EXCEPT ![t] = NoSolve]
                       /\ pc' = [pc EXCEPT ![t] = "idle"]
                  ELSE IF s.attempt < s.max_retries
                    THEN \* lines 142-145
                         /\ sv' = [sv EXCEPT ![t] = [s EXCEPT !.waited = @ + Backoff(s.attempt),
                                                              !.fails = @ + 1]]
                         /\ pc' = [pc EXCEPT ![t] = "solve_sleep"]
                         /\ UNCHANGED sret
                    ELSE \* lines 147-148
                         /\ sret' = SRet("absent", EmptyDict, None,
                                         [s EXCEPT !.fails = s.fails + 1], TRUE)
                         /\ sv' = [sv EXCEPT ![t] = NoSolve]
                         /\ pc' = [pc EXCEPT ![t] = "idle"]
    /\ UNCHANGED <<solver_cfg, rd, pair>>
    /\ UNCHANGED <<pvars, hvars, avars>>

SolveReply(t) == \E o \in Replies : SolveReplyOf(t, o)

\* Lines 145, 114-119: the sleep ends and the next attempt issues its GET.
SolveWake(t) ==
    /\ pc[t] = "solve_sleep"
    /\ sv' = [sv EXCEPT ![t].attempt = @ + 1, ![t].calls = @ + 1]
    /\ pc' = [pc EXCEPT ![t] = "solve_call"]
    /\ UNCHANGED <<solver_cfg, sret, cvars>>
    /\ UNCHANGED <<pvars, hvars, avars>>

\* config.cloudflare_solver_enabled and config.cloudflare_solver_api_url are
\* read anew by every call (lines 108-112) and by a running call never again:
\* the settings change between calls.
SolverConfigChange ==
    /\ \A t \in Solvers : pc[t] = "idle"
    /\ \E c \in SolverConfigs : solver_cfg' = c
    /\ solver_cfg' # solver_cfg
    /\ UNCHANGED <<sv, sret, pc, cvars>>
    /\ UNCHANGED <<pvars, hvars, avars>>

NextSolve ==
    \/ \E t \in Solvers : SolveStart(t)
    \/ \E t \in Solvers : SolveReply(t)
    \/ \E t \in Solvers : SolveWake(t)
    \/ \E t \in Tasks : ClearCreds(t)
    \/ SolverConfigChange

SpecSolve == InitSolve /\ [][NextSolve]_vars

\* ------------------------------------------------------------------ properties of the credential store
\* The pairs the update calls of the model write, each in one locked block.
Writes == {[cookies |-> a.cookies, ua |-> a.ua] : a \in UpdateArgs}

\* C1: the (cookies, user_agent) a reader obtains, reading one property after
\* the other, is the pair one single update wrote, or the absent pair of the
\* initial and the cleared store: never the cookies of one call with the user
\* agent of another.
C1_ReadPairIsOneWrite == pair \in Writes \cup {AbsentPair}

\* C5: is_valid holds exactly when the last update or clear that ran was an
\* update with non-empty cookies and a user agent that is not None.
C5_ValidIffLastUpdateComplete ==
    IsValid <=> (last_mut.op = "update" /\ last_mut.cookies # EmptyDict /\ last_mut.ua # None)

\* A clear has followed an update whose credentials a reader had seen.
C5_Witness ==
    /\ last_mut.op = "clear"
    /\ ~IsValid
    /\ pair \in Writes
    /\ DictTruthy(pair.cookies) /\ pair.ua # None

\* ------------------------------------------------------------------ properties of the solver
Running(t) == pc[t] \in {"solve_call", "solve_sleep"}

\* Steps a running solve has left at most: two for each attempt to come.
Measure(t) ==
    IF Running(t)
      THEN 2 * (sv[t].max_retries - sv[t].attempt) + (IF pc[t] = "solve_call" THEN 2 ELSE 1)
      ELSE 0

\* C9: whatever the service answers, no exception leaves solve, and a started
\* solve returns: it always has a next step, each step lowers a measure
\* bounded by 2 * max_retries, and it never issues more than max_retries
\* GETs.  A call that passed the gate and returned None has issued exactly
\* max_retries GETs (none when max_retries <= 0), all of them soft failures.
C9_NeverRaisesAlwaysReturns ==
    /\ [](sret.kind # "raised")
    /\ [](\A t \in Solvers :
            Running(t) => /\ 1 <= sv[t].attempt /\ sv[t].attempt <= sv[t].max_retries
                          /\ sv[t].calls = sv[t].attempt
                          /\ sv[t].fails = sv[t].calls - (IF pc[t] = "solve_call" THEN 1 ELSE 0)
                          /\ Measure(t) <= 2 * sv[t].max_retries
                          /\ ENABLED (SolveReply(t) \/ SolveWake(t)))
    /\ [][\A t \in Solvers :
            (Running(t) /\ <<pc[t], sv[t]>>' # <<pc[t], sv[t]>>) => Measure(t)' < Measure(t)]_vars
    /\ []((sret.kind = "absent" /\ sret.gate)
            => /\ sret.calls = (IF sret.max_retries > 0 THEN sret.max_retries ELSE 0)
               /\ sret.fails = sret.calls)

\* Three GETs have failed, one of them by an exception, and solve(3) has
\* returned None.
C9_Witness ==
    /\ sret.kind = "absent"
    /\ sret.gate
    /\ sret.max_retries = 3
    /\ sret.calls = 3
    /\ sret.fails = 3

\* C10: a solve that returns a payload with non-empty cookies C and a user
\* agent U after k soft failures has issued k+1 GETs, has slept 2+4+...+2k =
\* k(k+1) seconds, and leaves the store holding (C, U), valid.
C10_SuccessAfterKFailures ==
    [][\A t \in Solvers :
         (pc[t] = "solve_call" /\ pc'[t] = "idle" /\ sret'.kind = "dict"
            /\ DictTruthy(sret'.cookies) /\ StrTruthy(sret'.ua))
         => /\ sret'.fails < sret'.max_retries
            /\ sret'.calls = sret'.fails + 1
            /\ sret'.waited = sret'.fails * (sret'.fails + 1)
            /\ cookies' = sret'.cookies
            /\ user_agent' = sret'.ua
            /\ last_updated' # None
            /\ IsValid']_vars

\* solve(3) failed twice, succeeded on the third GET, slept 6 seconds and
\* published the payload.
C10_Witness ==
    /\ sret.kind = "dict"
    /\ sret.max_retries = 3
    /\ sret.fails = 2
    /\ sret.calls = 3
    /\ sret.waited = 6
    /\ sret.cookies = DictA /\ sret.ua = Some("U1")
    /\ cookies = DictA /\ user_agent = Some("U1")
    /\ IsValid

\* The solving-service address counts as absent when it is None or empty.
AddressAbsent(sc) == sc.api_url \in {None, Some("")}

GateShut == ~solver_cfg.enabled \/ AddressAbsent(solver_cfg)

\* A step in which a solve call returns without having suspended.
ReturnsAtOnce == sret' # sret /\ pc' = pc

\* C11: while the enabled flag is false or the service address is absent, a
\* solve call returns None in the segment that made it, for every
\* max_retries: it issues no GET, sleeps for no time and leaves the store as
\* it found it.
C11_GateShutReturnsAtOnce ==
    /\ [][\A t \in Solvers :
            (GateShut /\ pc[t] = "idle") => pc'[t] = "idle"]_vars
    /\ [][(GateShut /\ ReturnsAtOnce)
            => /\ sret'.kind = "absent"
               /\ ~sret'.gate
               /\ sret'.calls = 0 /\ sret'.fails = 0 /\ sret'.waited = 0
               /\ sv' = sv
               /\ UNCHANGED <<cookies, user_agent, last_updated>>]_vars
    /\ []((sret.kind = "absent" /\ ~sret.gate)
            => (sret.calls = 0 /\ sret.fails = 0 /\ sret.waited = 0))

\* The flag is on and the address is empty; solve(3) has returned None and
\* the credentials an earlier solve published are still in the store.
C11_Witness ==
    /\ sret.kind = "absent"
    /\ ~sret.gate
    /\ sret.max_retries = 3
    /\ solver_cfg.enabled /\ solver_cfg.api_url = Some("")
    /\ cookies = DictB /\ user_agent = Some("U2")

\* A success reply whose cookies are empty or missing, or whose user agent is
\* missing.
Incomplete(o) == o.kind = "success" /\ (o.cookies = EmptyDict \/ o.ua = None)

\* C15: when the service answers 200 with success = true and an incomplete
\* payload, solve returns that payload as it came, leaves the store as it
\* was, and neither sleeps nor tries again.
C15_IncompletePayloadReturnedRaw ==
    [][\A t \in Solvers : \A o \in Replies :
         (Incomplete(o) /\ SolveReplyOf(t, o))
         => /\ pc'[t] = "idle"
            /\ sv'[t] = NoSolve
            /\ sret'.kind = "dict"
            /\ sret'.cookies = o.cookies /\ sret'.ua = o.ua
            /\ sret'.calls = sv[t].calls
            /\ sret'.waited = sv[t].waited
            /\ UNCHANGED <<cookies, user_agent, last_updated>>]_vars

\* After one soft failure the service answered success without cookies:
\* solve returned the payload, and the store still holds what an earlier
\* solve published.
C15_Witness ==
    /\ sret.kind = "dict"
    /\ sret.cookies = EmptyDict /\ sret.ua = Some("U1")
    /\ sret.fails = 1 /\ sret.calls = 2
    /\ cookies = DictB /\ user_agent = Some("U2")

\* C16: a soft-failed attempt i is followed by a sleep of 2 * i seconds and
\* attempt i + 1 exactly when i < max_retries; a return follows the final and
\* the successful attempt without a sleep.  A run that fails throughout makes
\* max_retries GETs and, one sleep before each GET but the first,
\* max_retries - 1 sleeps of max_retries * (max_retries - 1) seconds in all;
\* with max_retries <= 0 it makes no GET and no sleep.
C16_LinearBackoff ==
    /\ [][\A t \in Solvers :
            (pc[t] = "solve_call" /\ pc'[t] = "solve_sleep")
            => /\ sv[t].attempt < sv[t].max_retries
               /\ sv'[t].attempt = sv[t].attempt
               /\ sv'[t].fails = sv[t].fails + 1
               /\ sv'[t].waited = sv[t].waited + 2 * sv[t].attempt]_vars
    /\ [][\A t \in Solvers :
            (pc[t] = "solve_call" /\ pc'[t] = "idle")
            => /\ sret'.waited = sv[t].waited
               /\ sret'.kind = "absent" => sv[t].attempt = sv[t].max_retries]_vars
    /\ [][\A t \in Solvers :
            (pc[t] = "solve_sleep" /\ pc'[t] # "solve_sleep")
            => /\ pc'[t] = "solve_call"
               /\ sv'[t].attempt = sv[t].attempt + 1
               /\ sv'[t].calls = sv[t].calls + 1
               /\ sv'[t].waited = sv[t].waited]_vars
    /\ [](\A t \in Solvers :
            Running(t) => sv[t].waited = sv[t].fails * (sv[t].fails + 1))
    /\ []((sret.kind = "absent" /\ sret.gate)
            => IF sret.max_retries >= 1
                 THEN /\ sret.calls = sret.max_retries
                      /\ sret.waited = sret.max_retries * (sret.max_retries - 1)
                 ELSE sret.calls = 0 /\ sret.waited = 0)

\* solve(3) failed three times and slept 2 + 4 seconds.
C16_Witness ==
    /\ sret.kind = "absent"
    /\ sret.gate
    /\ sret.max_retries = 3
    /\ sret.waited = 6

\* The complete payloads the service sends.
CompletePayloads ==
    {[cookies |-> o.cookies, ua |-> o.ua] :
        o \in {r \in Replies : r.kind = "success" /\ r.cookies # EmptyDict /\ r.ua # None}}

\* C17: with solve and clear as the only writers, the store is all or
\* nothing: cookies are non-empty exactly when the user agent is present and
\* exactly when the time of update is present, and what a non-empty store
\* holds is the complete payload of one reply.
C17_StoreAllOrNothing ==
    /\ DictTruthy(cookies) <=> user_agent # None
    /\ user_agent # None <=> last_updated # None
    /\ DictTruthy(cookies) => [cookies |-> cookies, ua |-> user_agent] \in CompletePayloads

\* A solve sleeps between attempts, a clear has emptied the store after the
\* last write, and an earlier solve had returned a complete payload.
C17_Witness ==
    /\ \E t \in Solvers : pc[t] = "solve_sleep"
    /\ last_mut.op = "clear"
    /\ cookies = EmptyDict /\ user_agent = None /\ last_updated = None
    /\ sret.kind = "dict" /\ DictTruthy(sret.cookies) /\ StrTruthy(sret.ua)

\* C19: a solve call that returns None, at the gate or after max_retries
\* soft failures, returns from a step that leaves cookies, user agent and
\* time of update as they were.
C19_AbsentLeavesStore ==
    [][\A t \in Solvers :
         (/\ \/ pc[t] = "idle" /\ ReturnsAtOnce
             \/ pc[t] = "solve_call" /\ pc'[t] = "idle"
          /\ sret'.kind = "absent")
         => UNCHANGED <<cookies, user_agent, last_updated>>]_vars

\* ------------------------------------------------------------------ further properties of the proxy pool
\* A step in which a reload_proxy_pool call runs.
ReloadStep == pc' = pc /\ file' = file /\ ret'.op = "reload"

\* C13: the integer a reload returns is the number of entries that this call
\* loaded from the source and installed as the list, with cursor 0, whatever
\* other calls are under way.
C13_ReloadReturnsOwnCount ==
    [][ReloadStep
        => /\ proxy_pool' = LoadProxyPool(file)
           /\ pool_index' = 0
           /\ ret'.n = Len(LoadProxyPool(file))
           /\ ret'.n = Len(proxy_pool')]_vars

\* A reload has installed three entries and returned 3 while an
\* update_proxy_config waits to reset the pool and the source has since
\* changed.
C13_Witness ==
    /\ ret.op = "reload"
    /\ ret.n = 3
    /\ PoolSize = 3 /\ pool_index = 0
    /\ \E t \in Tasks : pc[t] = "upd_lock"
    /\ Len(LoadProxyPool(file)) # 3

\* C14: a get_proxy_url that read the row an update_proxy_config persisted,
\* that update not having reset the pool yet, is not served an entry from the
\* list and cursor cached before the update.
C14_NoServeFromStaleCache ==
    [][\A t \in Tasks :
         (pc[t] = "get_lock" /\ pc'[t] = "idle" /\ t \in stale_cfg) => proxy_pool = <<>>]_vars

\* C20: the cursor is 0 whenever the list is empty, and a get_proxy_url that
\* finds the list empty and loads a source with entries installs them, returns
\* the first of them and advances the cursor from where it stood.
C20_EmptyPoolCursorZero ==
    /\ [](proxy_pool = <<>> => pool_index = 0)
    /\ [][\A t \in Tasks :
            (pc[t] = "get_lock" /\ pc'[t] = "idle" /\ proxy_pool = <<>> /\ Fresh # <<>>)
            => /\ proxy_pool' = Fresh
               /\ ret'.val = Some(Fresh[1])
               /\ pool_index' = (pool_index + 1) % Len(Fresh)]_vars

\* A reload has emptied the list of a source without entries, the source has
\* got entries since, and a get_proxy_url is about to load them.
C20_Witness ==
    /\ ret.op = "reload"
    /\ ret.n = 0
    /\ proxy_pool = <<>>
    /\ Len(Fresh) >= 2
    /\ \E t \in Tasks : pc[t] = "get_lock"

\* ------------------------------------------------------------------ is_cloudflare_challenge
\* Lines 162-169: a call with the arguments at hand.
ChallengeCall ==
    /\ chal.out = None
    /\ chal' = [chal EXCEPT !.out =
                   Some(IsCloudflareChallenge(chal.status, chal.headers, chal.text))]
    /\ UNCHANGED <<pc, pvars, cvars, svars, avars>>

\* The caller gets the next response to ask about.
ChallengeArgs ==
    /\ chal.out # None
    /\ chal' \in [status : StatusInputs, headers : HeaderInputs, text : BodyInputs, out : {None}]
    /\ UNCHANGED <<pc, pvars, cvars, svars, avars>>

NextChallenge ==
    \/ ChallengeCall
    \/ ChallengeArgs

SpecChallenge == InitChallenge /\ [][NextChallenge]_vars

\* n occurs in s.
Contains(s, n) == \E i \in 1..(Len(s) - Len(n) + 1) : SubSeq(s, i, i + Len(n) - 1) = n

\* C12: is_cloudflare_challenge returns False for every status code other than
\* 429 and 403, whatever headers and body hold; for 429 and 403 it returns
\* True exactly when str(headers) contains "cf-mitigated" or the body contains
\* "Just a moment" or "challenge-platform".
C12_ChallengeDetection ==
    chal.out # None
    => /\ chal.status \notin {429, 403} => chal.out = Some(FALSE)
       /\ chal.status \in {429, 403}
            => chal.out = Some(\/ Contains(StrDict(chal.headers), CfMitigated)
                               \/ Contains(chal.text, JustAMoment)
                               \/ Contains(chal.text, ChallengePlatform))

\* A 403 without headers whose body starts with "Just a moment..." was found
\* to be a challenge.
C12_Witness ==
    /\ chal.status = 403
    /\ chal.headers = <<>>
    /\ chal.text = JustAMoment \o <<".", ".", ".">>
    /\ chal.out = Some(TRUE)

\* ------------------------------------------------------------------ CloudflareState and the identity of dicts
\* CloudflareState.update called with a dict the caller has made and keeps:
\* line 49 stores a copy of it.
AliasUpdate(t) ==
    /\ pc[t] = "idle"
    /\ \E a \in UpdateArgs, now \in Times :
         LET arg == NewRef(LiveRefs(cookies_ref, [held EXCEPT ![t] = 0]))
             h == [held EXCEPT ![t] = arg]
             copy == DictCopyRef(arg, NewRef(HeldRefs(h)))
         IN  /\ StoreUpdate(a.cookies, a.ua, now)
             /\ held' = h
             /\ cookies_ref' = copy
             /\ objs' = Collect([objs EXCEPT ![arg] = a.cookies, ![copy] = a.cookies],
                                LiveRefs(copy, h))
    /\ UNCHANGED <<pc, rd, pair>>
    /\ UNCHANGED <<pvars, svars, hvars>>

\* CloudflareState.clear: line 57 stores a new empty dict.
AliasClear(t) ==
    /\ pc[t] = "idle"
    /\ cookies' = EmptyDict
    /\ user_agent' = None
    /\ last_updated' = None
    /\ last_mut' = [op |-> "clear", cookies |-> EmptyDict, ua |-> None]
    /\ LET new == NewRef(HeldRefs(held))
       IN  /\ cookies_ref' = new
           /\ objs' = Collect([objs EXCEPT ![new] = EmptyDict], LiveRefs(new, held))
    /\ UNCHANGED <<pc, rd, pair, held>>
    /\ UNCHANGED <<pvars, svars, hvars>>

\* The cookies property, lines 21-24: the caller gets a copy of the store's
\* dict and keeps it.
AliasSnapshot(t) ==
    /\ pc[t] = "idle"
    /\ LET got == DictCopyRef(cookies_ref, NewRef(LiveRefs(cookies_ref, [held EXCEPT ![t] = 0])))
           h == [held EXCEPT ![t] = got]
       IN  /\ held' = h
           /\ objs' = Collect([objs EXCEPT ![got] = objs[cookies_ref]], LiveRefs(cookies_ref, h))
    /\ UNCHANGED <<pc, cookies_ref>>
    /\ UNCHANGED <<cookies, user_agent, last_updated, rd, pair, last_mut>>
    /\ UNCHANGED <<pvars, svars, hvars>>

\* A caller changes the dict it holds: the one it passed to update, or the
\* one the cookies property returned.  _cookies shows the change if it is
\* that object.
AliasMutate(t) ==
    /\ pc[t] = "idle"
    /\ held[t] # 0
    /\ \E d \in Mutations(objs[held[t]]) : objs' = [objs EXCEPT ![held[t]] = d]
    /\ cookies' = objs'[cookies_ref]
    /\ UNCHANGED <<pc, cookies_ref, held>>
    /\ UNCHANGED <<user_agent, last_updated, rd, pair, last_mut>>
    /\ UNCHANGED <<pvars, svars, hvars>>

NextAlias ==
    \/ \E t \in Tasks : AliasUpdate(t)
    \/ \E t \in Tasks : AliasClear(t)
    \/ \E t \in Tasks : AliasSnapshot(t)
    \/ \E t \in Tasks : AliasMutate(t)

SpecAlias == InitStore /\ [][NextAlias]_vars

\* A step that is no update and no clear and changes a dict: a caller changes
\* the dict it holds.
CallerMutates ==
    /\ objs' # objs
    /\ held' = held /\ cookies_ref' = cookies_ref
    /\ last_mut' = last_mut /\ last_updated' = last_updated /\ user_agent' = user_agent

\* C18: the cookies of the store are at all times what the last update or
\* clear stored.  No caller holds the store's dict, and a step in which a
\* caller changes the dict it holds, the one it passed to update or the one
\* the cookies property returned, leaves what the store returns as it was.
C18_OnlyUpdateAndClearChangeCookies ==
    /\ [](cookies = objs[cookies_ref])
    /\ [](cookies = last_mut.cookies)
    /\ [](\A t \in Tasks : held[t] # cookies_ref)
    /\ [][CallerMutates => (cookies' = cookies /\ objs'[cookies_ref] = objs[cookies_ref])]_vars
    /\ [][cookies' # cookies
            => /\ last_mut'.op \in {"update", "clear"}
               /\ cookies' = last_mut'.cookies]_vars

\* One caller has added an item to the dict it passed to update, another has
\* emptied the dict the cookies property gave it, and the store holds the
\* cookies of the update.
C18_Witness ==
    /\ last_mut.op = "update"
    /\ cookies = DictA
    /\ \E t \in Tasks : held[t] # 0 /\ objs[held[t]] = DictA \cup {<<"x", "9">>}
    /\ \E t \in Tasks : held[t] # 0 /\ objs[held[t]] = EmptyDict

====
